---- MODULE Spec2Model ----
(***************************************************************************)
(* The USFM grammar of src/peg.py and the driver that feeds it its sample  *)
(* texts.  A text is a sequence of characters, each character its Unicode  *)
(* code point (92 is the backslash, 124 the pipe, 32 the space); an offset *)
(* p is the number of characters before the position, so the next          *)
(* character is s[p + 1].  A rule of the grammar is an operator            *)
(* (s, p) -> result,                                                       *)
(* evaluated as the PEG runtime that compiles the grammar evaluates it:    *)
(* ordered, greedy, backtracking to the start of a failed optional or      *)
(* repetition; whitespace is skipped on entry to every rule and before     *)
(* every literal token.  A parse that fails raises an exception; the       *)
(* offset the exception carries is chosen by the runtime's own record of   *)
(* failures, which the source does not contain, and is not part of the     *)
(* result modelled here.                                                   *)
(***************************************************************************)
EXTENDS Integers, Sequences, FiniteSets, TLC

VARIABLES text, result, step

vars == <<text, result, step>>

(* ------------------------------ bounds -------------------------------- *)

\* number of tokens of Tok an enumerated input is made of, at most
MaxTok == 4

(* ---------------------------- characters ------------------------------ *)

\* [A-Za-z]
Letter == (65..90) \cup (97..122)

\* [0-9]
Digit == 48..57

\* the characters of [A-Za-z0-9-]
IdChar == Letter \cup Digit \cup {45}

\* the characters \s matches in a str pattern: tab, line feed, vertical
\* tab, form feed, carriage return, the separators U+001C..U+001F, space,
\* U+0085, U+00A0, U+1680, U+2000..U+200A, U+2028, U+2029, U+202F, U+205F
\* and U+3000
Whitespace ==
  (9..13) \cup (28..32) \cup {133, 160, 5760} \cup (8192..8202)
    \cup {8232, 8233, 8239, 8287, 12288}

\* the characters /[^\\|]*/ stops at: backslash and pipe
TextStop == {92, 124}

\* the double quote
Quote == 34

(* ------------------------- results of a rule -------------------------- *)
(* ok: the rule matched; pos: the offset after the match; node: what it    *)
(* built; cut: some pair attempt made while evaluating the rule matched    *)
(* "=" and then no value.                                                  *)

Succ(pos, node, cut) ==
  [ok |-> TRUE, pos |-> pos, node |-> node, cut |-> cut]

Fail(cut) ==
  [ok |-> FALSE, pos |-> -1, node |-> <<>>, cut |-> cut]

(* ------------------------------ scanning ------------------------------ *)

\* the value v of a set {e(x) : x \in {v}}: x is evaluated once, however
\* often e uses it
Only(S) == CHOOSE x \in S : TRUE

RECURSIVE MatchIn(_, _, _)
\* the offset after the longest run of characters of C that starts at p
MatchIn(s, p, C) ==
  IF p < Len(s) /\ s[p + 1] \in C THEN MatchIn(s, p + 1, C) ELSE p

RECURSIVE MatchNotIn(_, _, _)
\* the offset after the longest run of characters not in C that starts at p
MatchNotIn(s, p, C) ==
  IF p < Len(s) /\ s[p + 1] \notin C THEN MatchNotIn(s, p + 1, C) ELSE p

\* the runtime skips whitespace on entry to a rule and before a token
next_token(s, p) == MatchIn(s, p, Whitespace)

\* a literal token "c" of the grammar
Token(s, p, c) ==
  Only({IF q < Len(s) /\ s[q + 1] = c
        THEN Succ(q + 1, c, FALSE)
        ELSE Fail(FALSE) : q \in {next_token(s, p)}})

(* --------------------------- lexical rules ---------------------------- *)

\* tag_id with a first letter that may be missing: /[A-Za-z0-9-]*/
tag_id_empty(s, p) ==
  Only({Only({Succ(e, SubSeq(s, q + 1, e), FALSE) :
                e \in {MatchIn(s, q, IdChar)}}) :
          q \in {next_token(s, p)}})

\* tag_id = /[A-Za-z][A-Za-z0-9-]*/
tag_id(s, p) ==
  Only({IF q < Len(s) /\ s[q + 1] \in Letter
        THEN Only({Succ(e, SubSeq(s, q + 1, e), FALSE) :
                     e \in {MatchIn(s, q + 1, IdChar)}})
        ELSE Fail(FALSE) : q \in {next_token(s, p)}})

\* backslash = "\\" (92)
backslash(s, p) == Token(s, next_token(s, p), 92)

\* pipe = "|" (124)
pipe(s, p) == Token(s, next_token(s, p), 124)

\* ws = /\s*/
ws(s, p) ==
  Only({Only({Succ(e, SubSeq(s, q + 1, e), FALSE) :
                e \in {MatchIn(s, q, Whitespace)}}) :
          q \in {next_token(s, p)}})

\* text that also stops at whitespace: /[^\\|\s]*/
text_rule_no_space(s, p) ==
  Only({Only({Succ(e, SubSeq(s, q + 1, e), FALSE) :
                e \in {MatchNotIn(s, q, TextStop \cup Whitespace)}}) :
          q \in {next_token(s, p)}})

\* text = /[^\\|]*/
text_rule(s, p) ==
  Only({Only({Succ(e, SubSeq(s, q + 1, e), FALSE) :
                e \in {MatchNotIn(s, q, TextStop)}}) :
          q \in {next_token(s, p)}})

\* value = /"[^"]*"/ : the match, both quotes included
value(s, p) ==
  Only({IF q < Len(s) /\ s[q + 1] = Quote
        THEN Only({IF e < Len(s)
                   THEN Succ(e + 1, SubSeq(s, q + 1, e + 1), FALSE)
                   ELSE Fail(FALSE) :
                     e \in {MatchNotIn(s, q + 1, {Quote})}})
        ELSE Fail(FALSE) : q \in {next_token(s, p)}})

\* key = tag_id
key(s, p) == tag_id(s, next_token(s, p))

(* ------------------------ pairs and attributes ------------------------ *)

\* the pair of the key k after its "=" was read and value gave v; when v
\* failed the pair has no value and ends at offset back
PairValue(k, v, back) ==
  IF v.ok
  THEN Succ(v.pos, [key |-> k.node, value |-> <<v.node>>], FALSE)
  ELSE Succ(back, [key |-> k.node, value |-> <<>>], TRUE)

\* pair that keeps the "=" it read when no value follows
pair_keeps_equals(s, p) ==
  Only({IF ~k.ok THEN Fail(FALSE)
        ELSE Only({IF ~eq.ok
                   THEN Succ(k.pos, [key |-> k.node, value |-> <<>>], FALSE)
                   ELSE Only({PairValue(k, v, eq.pos) :
                                v \in {value(s, eq.pos)}}) :
                     eq \in {Token(s, k.pos, 61)}}) :
          k \in {key(s, p)}})

\* pair = key [("=" value)] : a failed option is backtracked, value absent
\* ("=" is 61)
pair(s, p) ==
  Only({IF ~k.ok THEN Fail(FALSE)
        ELSE Only({IF ~eq.ok
                   THEN Succ(k.pos, [key |-> k.node, value |-> <<>>], FALSE)
                   ELSE Only({PairValue(k, v, k.pos) :
                                v \in {value(s, eq.pos)}}) :
                     eq \in {Token(s, k.pos, 61)}}) :
          k \in {key(s, p)}})

RECURSIVE pairs(_, _)
\* {pair}* : repeats while pair matches and consumes
pairs(s, p) ==
  Only({IF r.ok /\ r.pos > p
        THEN Only({Succ(rest.pos, <<r.node>> \o rest.node,
                        r.cut \/ rest.cut) :
                     rest \in {pairs(s, r.pos)}})
        ELSE Succ(p, <<>>, r.cut) : r \in {pair(s, p)}})

\* attributes = [(pipe {pair}*)]
attributes(s, p) ==
  Only({IF pp.ok THEN pairs(s, pp.pos)
        ELSE Succ(next_token(s, p), <<>>, FALSE) :
          pp \in {pipe(s, next_token(s, p))}})

(* ------------------------------- tags --------------------------------- *)

\* tag_start = backslash tag_id ws
tag_start(s, p) ==
  Only({IF ~b.ok THEN Fail(FALSE)
        ELSE Only({IF ~id.ok THEN Fail(FALSE)
                   ELSE Succ(ws(s, id.pos).pos, id.node, FALSE) :
                     id \in {tag_id(s, b.pos)}}) :
          b \in {backslash(s, p)}})

\* tag_end whose tag_id is not optional: backslash tag_id "*"
tag_end_with_id(s, p) ==
  Only({IF ~b.ok THEN Fail(FALSE)
        ELSE Only({IF ~id.ok THEN Fail(FALSE)
                   ELSE Only({IF ~star.ok THEN Fail(FALSE)
                              ELSE Succ(star.pos,
                                        [closing_tag |-> <<id.node>>,
                                         at |-> b.pos - 1], FALSE) :
                                star \in {Token(s, id.pos, 42)}}) :
                     id \in {tag_id(s, b.pos)}}) :
          b \in {backslash(s, p)}})

\* tag_end = backslash [tag_id] "*" ; at: the offset of its backslash
\* ("*" is 42)
tag_end(s, p) ==
  Only({IF ~b.ok THEN Fail(FALSE)
        ELSE Only({Only({IF ~star.ok
                         THEN Fail(FALSE)
                         ELSE Succ(star.pos,
                                   [closing_tag |->
                                      IF id.ok THEN <<id.node>> ELSE <<>>,
                                    at |-> b.pos - 1], FALSE) :
                           star \in {Token(s, IF id.ok THEN id.pos
                                                       ELSE b.pos, 42)}}) :
                     id \in {tag_id(s, b.pos)}}) :
          b \in {backslash(s, p)}})

(* ---------------------- elements, inline elements --------------------- *)

RECURSIVE element(_, _)
RECURSIVE inline_element(_, _)
RECURSIVE children(_, _)

\* the element of the tag ts with the leading text t1 and the children cs
ElementNode(s, p, ts, t1, cs) ==
  Only({Succ(t2.pos,
             [tag |-> ts.node, leading_text |-> t1.node,
              children |-> cs.node,
              from |-> next_token(s, p), body |-> t1.pos, to |-> t2.pos],
             cs.cut) : t2 \in {text_rule(s, cs.pos)}})

\* element = tag_start [text] {(inline_element [text])}* [text]
\* from, body, to: the offsets of its backslash, of the start of the
\* repetition and of its end
element(s, p) ==
  Only({IF ~ts.ok THEN Fail(FALSE)
        ELSE Only({Only({ElementNode(s, p, ts, t1, cs) :
                           cs \in {children(s, t1.pos)}}) :
                     t1 \in {text_rule(s, ts.pos)}}) :
          ts \in {tag_start(s, p)}})

\* the children that start with the inline element ie and the text t
ChildrenNode(s, ie, t) ==
  Only({Succ(rest.pos,
             <<[inline |-> ie.node, text |-> t.node, to |-> t.pos]>>
               \o rest.node,
             ie.cut \/ rest.cut) :
          rest \in {children(s, t.pos)}})

\* the repetition that stays where its failed attempt stopped: after the
\* element and the attributes the attempt read
children_no_restore(s, p) ==
  Only({IF ie.ok /\ ie.pos > p
        THEN Only({ChildrenNode(s, ie, t) : t \in {text_rule(s, ie.pos)}})
        ELSE Only({Succ(IF e.ok THEN attributes(s, e.pos).pos ELSE p,
                        <<>>, ie.cut) : e \in {element(s, p)}}) :
          ie \in {inline_element(s, p)}})

\* {(inline_element [text])}* : a failed inline_element ends the
\* repetition at the offset the attempt started from
children(s, p) ==
  Only({IF ie.ok /\ ie.pos > p
        THEN Only({ChildrenNode(s, ie, t) : t \in {text_rule(s, ie.pos)}})
        ELSE Succ(p, <<>>, ie.cut) :
          ie \in {inline_element(s, p)}})

\* the inline element of the element e, the attributes a, the tag_end te
InlineNode(e, a, te) ==
  IF ~te.ok
  THEN Fail(e.cut \/ a.cut)
  ELSE Succ(te.pos,
            [element |-> e.node, attributes |-> a.node,
             closing_tag |-> te.node.closing_tag,
             close_at |-> te.node.at, close_to |-> te.pos],
            e.cut \/ a.cut)

\* inline_element = element [attributes] tag_end
inline_element(s, p) ==
  Only({IF ~e.ok THEN Fail(e.cut)
        ELSE Only({Only({InlineNode(e, a, te) :
                           te \in {tag_end(s, a.pos)}}) :
                     a \in {attributes(s, e.pos)}}) :
          e \in {element(s, p)}})

(* ------------------------------ document ------------------------------ *)

RECURSIVE elements(_, _)
\* {element}*
elements(s, p) ==
  Only({IF e.ok /\ e.pos > p
        THEN Only({Succ(rest.pos, <<e.node>> \o rest.node,
                        e.cut \/ rest.cut) :
                     rest \in {elements(s, e.pos)}})
        ELSE Succ(p, <<>>, e.cut) : e \in {element(s, p)}})

\* document = {element}*
document(s, p) == elements(s, next_token(s, p))

NoResult == [kind |-> "none"]

\* the Document d is
DocumentOf(d) ==
  [kind |-> "Document", ok |-> TRUE, elements |-> d.node,
   end |-> d.pos, cut |-> d.cut]

\* the SyntaxError raised after the document d was read (elements and
\* end: what document had read when the error was raised)
SyntaxError(d) ==
  [kind |-> "SyntaxError", ok |-> FALSE, elements |-> d.node,
   end |-> d.pos, cut |-> d.cut]

\* start without the end-of-input check: start = document ;
start_no_eof(s) ==
  Only({DocumentOf(d) : d \in {document(s, next_token(s, 0))}})

\* start = document $ ; grammar.parse(text): the Document, or the
\* syntax error.  end: where document stopped
start(s) ==
  Only({IF next_token(s, d.pos) = Len(s)
        THEN DocumentOf(d)
        ELSE SyntaxError(d) : d \in {document(s, next_token(s, 0))}})

(* --------------------------- the sample texts ------------------------- *)
(* the string each sample function of src/peg.py parses, as code points    *)

single_simple_tag_text ==
  <<
    92, 105, 100, 32, 71, 69, 78, 32, 69, 78, 95, 85, 76, 84, 32, 101,
    110, 95, 69, 110, 103, 108, 105, 115, 104, 95, 108, 116, 114
  >>

double_simple_tag_text ==
  <<
    10, 32, 32, 32, 32, 92, 105, 100, 32, 71, 69, 78, 32, 69, 78, 95,
    85, 76, 84, 32, 101, 110, 95, 69, 110, 103, 108, 105, 115, 104, 95, 108,
    116, 114, 10, 32, 32, 32, 32, 92, 117, 115, 102, 109, 32, 51, 46, 48,
    10, 32, 32, 32, 32
  >>

single_attribute_text ==
  <<
    10, 32, 32, 32, 32, 92, 118, 32, 49, 32, 92, 119, 32, 104, 101, 108,
    108, 111, 32, 124, 32, 120, 45, 111, 99, 99, 117, 114, 101, 110, 99, 101,
    115, 32, 61, 32, 34, 49, 34, 92, 119, 42, 10, 32, 32, 32, 32
  >>

single_empty_attribute_text ==
  <<
    10, 32, 32, 32, 32, 92, 118, 32, 49, 32, 92, 119, 32, 104, 101, 108,
    108, 111, 32, 124, 32, 120, 45, 108, 101, 109, 109, 97, 32, 61, 32, 34,
    34, 92, 119, 42, 10, 32, 32, 32, 32
  >>

self_closing_tag_text ==
  <<
    10, 32, 32, 32, 32, 92, 112, 10, 32, 32, 32, 32, 92, 122, 97, 108,
    110, 45, 115, 92, 42, 10, 32, 32, 32, 32
  >>

inner_elements_text ==
  <<
    10, 32, 32, 32, 32, 92, 118, 32, 49, 32, 92, 122, 97, 108, 110, 45,
    115, 32, 124, 120, 45, 115, 116, 114, 111, 110, 103, 61, 34, 98, 58, 72,
    55, 50, 50, 53, 34, 32, 120, 45, 109, 111, 114, 112, 104, 61, 34, 72,
    101, 44, 82, 58, 78, 99, 102, 115, 97, 34, 92, 42, 92, 119, 32, 73,
    110, 92, 119, 42, 10, 32, 32, 32, 32
  >>

ending_text_text ==
  <<
    10, 32, 32, 32, 32, 92, 118, 32, 49, 10, 32, 32, 32, 32, 92, 119,
    32, 101, 109, 112, 116, 121, 124, 120, 45, 111, 99, 99, 117, 114, 114, 101,
    110, 99, 101, 61, 34, 49, 34, 32, 120, 45, 111, 99, 99, 117, 114, 114,
    101, 110, 99, 101, 115, 61, 34, 49, 34, 92, 119, 42, 92, 122, 97, 108,
    110, 45, 101, 92, 42, 44, 10, 32, 32, 32, 32, 92, 122, 97, 108, 110,
    45, 115, 92, 42, 10, 32, 32, 32, 32
  >>

self_closing_attributes_text ==
  <<
    10, 32, 32, 32, 32, 92, 118, 32, 49, 10, 32, 32, 32, 32, 92, 122,
    97, 108, 110, 45, 115, 32, 124, 120, 45, 115, 116, 114, 111, 110, 103, 61,
    34, 98, 34, 92, 42, 10, 32, 32, 32, 32, 92, 119, 32, 104, 101, 108,
    108, 111, 32, 92, 119, 42, 10, 32, 32, 32, 32, 92, 122, 97, 108, 110,
    45, 101, 92, 42, 10, 32, 32, 32, 32
  >>


(* ------------------------------- inputs ------------------------------- *)

\* the pieces the enumerated inputs are made of:
\*   \a   \a\a   \a*   \*   space   form feed   a   |   |a=   "   "a"
Tok ==
  { <<92, 97>>, <<92, 97, 92, 97>>, <<92, 97, 42>>,
    <<92, 42>>, <<32>>, <<12>>, <<97>>, <<124>>, <<124, 97, 61>>,
    <<34>>, <<34, 97, 34>> }

RECURSIVE InputsOf(_)
\* the texts made of at most n pieces
InputsOf(n) ==
  IF n = 0 THEN {<<>>}
  ELSE LET prev == InputsOf(n - 1)
       IN  prev \cup {t \o x : t \in Tok, x \in prev}

\* the inputs the specification's scenarios name:
\*   \v 1 \w hello | x-occurences = "1"\w*
scenario_2_text ==
  <<
    92, 118, 32, 49, 32, 92, 119, 32, 104, 101, 108, 108, 111, 32, 124, 32,
    120, 45, 111, 99, 99, 117, 114, 101, 110, 99, 101, 115, 32, 61, 32, 34,
    49, 34, 92, 119, 42
  >>

\*   \zaln-s\*
scenario_3_text ==
  <<
    92, 122, 97, 108, 110, 45, 115, 92, 42
  >>

\*   \w hello | x-lemma = "
scenario_4_text ==
  <<
    92, 119, 32, 104, 101, 108, 108, 111, 32, 124, 32, 120, 45, 108, 101, 109,
    109, 97, 32, 61, 32, 34
  >>

Scenarios == {scenario_2_text, scenario_3_text, scenario_4_text}

\* \a<c>x and \a <c>x for every whitespace character c
WhitespaceTexts ==
  {<<92, 97, c, 120>> : c \in Whitespace}
    \cup {<<92, 97, 32, c, 120>> : c \in Whitespace}

Inputs == InputsOf(MaxTok) \cup Scenarios \cup WhitespaceTexts

(* ------------------------------ the driver ---------------------------- *)

TypeOK ==
  /\ step \in 0..8
  /\ result.kind \in {"none", "Document", "SyntaxError"}

Init ==
  /\ text \in Inputs
  /\ result = NoResult
  /\ step = 0

\* grammar.parse(text) on a text handed in by a caller
parse ==
  /\ step = 0
  /\ result = NoResult
  /\ result' = start(text)
  /\ UNCHANGED <<text, step>>

\* the k-th sample of __main__: it runs when the samples before it
\* have parsed (an exception ends the program)
Sample(k, t) ==
  /\ step = k - 1
  /\ k > 1 => result.kind = "Document"
  /\ text' = t
  /\ result' = start(t)
  /\ step' = k

single_simple_tag == Sample(1, single_simple_tag_text)
double_simple_tag == Sample(2, double_simple_tag_text)
single_attribute == Sample(3, single_attribute_text)
single_empty_attribute == Sample(4, single_empty_attribute_text)
self_closing_tag == Sample(5, self_closing_tag_text)
inner_elements == Sample(6, inner_elements_text)
ending_text == Sample(7, ending_text_text)
self_closing_attributes == Sample(8, self_closing_attributes_text)

Next ==
  \/ parse
  \/ single_simple_tag
  \/ double_simple_tag
  \/ single_attribute
  \/ single_empty_attribute
  \/ self_closing_tag
  \/ inner_elements
  \/ ending_text
  \/ self_closing_attributes

Spec == Init /\ [][Next]_vars

(* ----------------------- the tree without offsets --------------------- *)

RECURSIVE ElementTree(_, _)
RECURSIVE InlineTree(_, _)

\* Element{tag, leading_text, children}; the inline element whose closing
\* tag is at offset anon is shown with closing_tag None
ElementTree(e, anon) ==
  [tag |-> e.tag, leading_text |-> e.leading_text,
   children |-> [i \in DOMAIN e.children |->
                   [inline |-> InlineTree(e.children[i].inline, anon),
                    text |-> e.children[i].text]]]

\* InlineElement{element, attributes, closing_tag}
InlineTree(ie, anon) ==
  [element |-> ElementTree(ie.element, anon),
   attributes |-> ie.attributes,
   closing_tag |-> IF ie.close_at = anon THEN <<>> ELSE ie.closing_tag]

\* Document: the top-level elements
DocumentTree(r, anon) ==
  [i \in DOMAIN r.elements |-> ElementTree(r.elements[i], anon)]

RECURSIVE ElementsIn(_)
\* the element e and the elements nested in it
ElementsIn(e) ==
  {e} \cup UNION {ElementsIn(e.children[i].inline.element) :
                    i \in DOMAIN e.children}

RECURSIVE InlinesIn(_)
\* the inline elements nested in the element e
InlinesIn(e) ==
  UNION {{e.children[i].inline} \cup InlinesIn(e.children[i].inline.element) :
           i \in DOMAIN e.children}

AllElements(r) == UNION {ElementsIn(r.elements[i]) : i \in DOMAIN r.elements}

AllInlines(r) == UNION {InlinesIn(r.elements[i]) : i \in DOMAIN r.elements}

Parsed == result.kind # "none"

(* ------------------------------- C1 ----------------------------------- *)

\* C1: parse returns a Document only if the document consumed the whole
\* input; when characters remain after the top-level elements the result
\* is a syntax error
C1_WholeInput ==
  Parsed =>
    /\ result.kind = "Document" => result.end = Len(text)
    /\ result.end < Len(text) => result.kind = "SyntaxError"

\* a parse that stopped after an element with characters left over
C1_Witness ==
  /\ result.kind = "SyntaxError"
  /\ Len(result.elements) >= 1
  /\ result.end < Len(text)

(* ------------------------------- C2 ----------------------------------- *)

\* the text is backslash, tag id, one space, rest without backslash or pipe
SingleTagEnd == MatchIn(text, 1, IdChar)

SingleTag ==
  /\ Len(text) >= 3
  /\ text[1] = 92
  /\ text[2] \in Letter
  /\ SingleTagEnd < Len(text)
  /\ text[SingleTagEnd + 1] = 32
  /\ \A i \in (SingleTagEnd + 2)..Len(text) : text[i] \notin TextStop

SingleTagId == SubSeq(text, 2, SingleTagEnd)

SingleTagRest == SubSeq(text, SingleTagEnd + 2, Len(text))

SingleTagParsed ==
  /\ result.kind = "Document"
  /\ DocumentTree(result, -1) =
       <<[tag |-> SingleTagId, leading_text |-> SingleTagRest,
          children |-> <<>>]>>

\* C2 as stated: every \<id> <rest> parses to one Element with tag id,
\* leading text rest and no children
C2_Original == (Parsed /\ SingleTag) => SingleTagParsed

\* C2 amended: every \<id> <rest> whose rest does not begin with
\* whitespace parses to one Element with tag id, leading text rest and no
\* children
C2_SingleTag ==
  (Parsed /\ SingleTag
          /\ (SingleTagRest = <<>> \/ SingleTagRest[1] \notin Whitespace))
    => SingleTagParsed

\* scenario 1, run by the driver
C2_Witness ==
  /\ step = 1
  /\ SingleTag
  /\ SingleTagRest # <<>>
  /\ SingleTagParsed

(* ------------------------------- C3 ----------------------------------- *)

\* the text is one tag_start immediately followed by a closing tag
StartThenEnd ==
  /\ Len(text) >= 1
  /\ text[1] = 92
  /\ tag_start(text, 0).ok
  /\ tag_end(text, tag_start(text, 0).pos).ok
  /\ tag_end(text, tag_start(text, 0).pos).pos = Len(text)

\* C3: a tag_start immediately followed by a closing tag and nothing else
\* fails to parse (the claim places the error at the closing tag's
\* backslash; the refutation does not need that clause)
C3_Original == (Parsed /\ StartThenEnd) => result.kind = "SyntaxError"

(* ------------------------------- C4 ----------------------------------- *)

\* the text with the closing tag of the inline element ie written \*
Anonymised(ie) ==
  SubSeq(text, 1, ie.close_at) \o <<92, 42>>
    \o SubSeq(text, ie.close_to + 1, Len(text))

\* C4: in a text that parses, writing the closing tag \<id>* of any inline
\* element as \* gives a text that parses to the same tree, except that
\* this inline element's closing_tag is None
C4_AnonymousClose ==
  result.kind = "Document" =>
    \A ie \in AllInlines(result) :
      ie.closing_tag # <<>> =>
        LET r2 == start(Anonymised(ie))
        IN  /\ r2.kind = "Document"
            /\ DocumentTree(r2, -1) = DocumentTree(result, ie.close_at)

\* a parsed text with an inline element closed by \<id>*
C4_Witness ==
  /\ result.kind = "Document"
  /\ \E ie \in AllInlines(result) : ie.closing_tag # <<>>

(* ------------------------------- C5 ----------------------------------- *)

\* the tree scenario 2 gives for its input
scenario_2_tree ==
  <<[tag |-> <<118>>, leading_text |-> <<49, 32>>,
     children |->
       <<[inline |->
            [element |-> [tag |-> <<119>>,
                          leading_text |-> <<104, 101, 108, 108, 111, 32>>,
                          children |-> <<>>],
             attributes |->
               <<[key |-> <<120, 45, 111, 99, 99, 117, 114, 101, 110,
                            99, 101, 115>>,
                  value |-> <<(<<49>>)>>]>>,
             closing_tag |-> <<(<<119>>)>>],
          text |-> <<>>]>>]>>

\* C5: the input of scenario 2 parses to the tree of scenario 2, the
\* attribute x-occurences having the value 1
C5_Original ==
  (Parsed /\ text = scenario_2_text) =>
    /\ result.kind = "Document"
    /\ DocumentTree(result, -1) = scenario_2_tree

(* ------------------------------- C7 ----------------------------------- *)

RECURSIVE ElementDepth(_)
\* the depth of the inline elements nested in the element e
ElementDepth(e) ==
  IF e.children = <<>> THEN 0
  ELSE 1 + CHOOSE d \in {ElementDepth(e.children[i].inline.element) :
                           i \in DOMAIN e.children} :
             \A i \in DOMAIN e.children :
               ElementDepth(e.children[i].inline.element) <= d

\* the depth of the tree of r
TreeDepth(r) ==
  IF r.elements = <<>> THEN 0
  ELSE CHOOSE d \in {ElementDepth(r.elements[i]) : i \in DOMAIN r.elements} :
         \A i \in DOMAIN r.elements : ElementDepth(r.elements[i]) <= d

Max(a, b) == IF a >= b THEN a ELSE b

RECURSIVE Nesting(_, _, _, _)
\* reads the tags of s from offset p on.  open: the tags not yet closed,
\* innermost last, each with the depth of the inline elements closed in
\* it; deep: the deepest inline element closed so far.  A closing tag
\* closes the innermost open tag, which must have its id and an enclosing
\* tag; tags left open are top-level
Nesting(s, p, open, deep) ==
  LET q  == MatchNotIn(s, p, {92})
      te == tag_end(s, q)
      ts == tag_start(s, q)
      n  == Len(open)
      d  == open[n].depth + 1
  IN  IF q >= Len(s) THEN [balanced |-> n >= 1, depth |-> deep]
      ELSE IF te.ok
      THEN IF n >= 2 /\ te.node.closing_tag \in {<<>>, <<open[n].tag>>}
           THEN Nesting(s, te.pos,
                        [SubSeq(open, 1, n - 1) EXCEPT ![n - 1].depth =
                           Max(@, d)],
                        Max(deep, d))
           ELSE [balanced |-> FALSE, depth |-> deep]
      ELSE IF ts.ok
      THEN Nesting(s, ts.pos, Append(open, [tag |-> ts.node, depth |-> 0]),
                   deep)
      ELSE [balanced |-> FALSE, depth |-> deep]

\* the text has no attributes and its inline tags are balanced
Balanced ==
  /\ \A i \in DOMAIN text : text[i] # 124
  /\ Len(text) >= 1
  /\ text[1] = 92
  /\ Nesting(text, 0, <<>>, 0).balanced

\* C7: a text with balanced inline tags parses, to a tree as deep as the
\* inline elements of the text are nested
C7_Original ==
  (Parsed /\ Balanced) =>
    /\ result.kind = "Document"
    /\ TreeDepth(result) = Nesting(text, 0, <<>>, 0).depth

(* ------------------------------- C8 ----------------------------------- *)

\* C8: when the "=" of a pair was read and no value follows it, the parse
\* fails; no Document is returned
C8_ValueAfterEquals == (Parsed /\ result.cut) => result.kind = "SyntaxError"

\* a parse in which a pair read its "=" and found no value
C8_Witness == Parsed /\ result.cut /\ Len(result.elements) >= 1

(* ------------------------------- C9 ----------------------------------- *)

\* the repetition of the element e was ended by a failed inline_element
\* attempt that started at a backslash
StoppedAtBackslash(e) == e.to < Len(text) /\ text[e.to + 1] = 92

\* the element e ends where its leading text or its last child ended,
\* and no inline_element matches there
NoTrace(e) ==
  /\ e.to = IF e.children = <<>> THEN e.body
            ELSE e.children[Len(e.children)].to
  /\ ~inline_element(text, e.to).ok

\* the inline element ie goes on from where its element stopped, with
\* no attributes and with its tag_end at that backslash
ClosedThere(ie) == ie.attributes = <<>> /\ ie.close_at = ie.element.to

\* C9 as stated: after a failed inline_element attempt the element has
\* the children parsed before it and ends at the backslash, and the
\* enclosing production reads that backslash as its tag_end or fails
C9_Original ==
  Parsed =>
    /\ \A e \in AllElements(result) : StoppedAtBackslash(e) => NoTrace(e)
    /\ \A ie \in AllInlines(result) :
         StoppedAtBackslash(ie.element) => ClosedThere(ie)
    /\ \A i \in DOMAIN result.elements :
         StoppedAtBackslash(result.elements[i]) => result.kind = "SyntaxError"

\* C9 amended: after a failed inline_element attempt the element has the
\* children parsed before it and ends at the backslash; an enclosing
\* inline_element reads that backslash as its tag_end or fails, and the
\* enclosing document tries a new top-level element at that backslash
\* and fails only if there is none
C9_NoTrace ==
  Parsed =>
    /\ \A e \in AllElements(result) : StoppedAtBackslash(e) => NoTrace(e)
    /\ \A ie \in AllInlines(result) :
         StoppedAtBackslash(ie.element) => ClosedThere(ie)
    /\ \A i \in DOMAIN result.elements :
         StoppedAtBackslash(result.elements[i]) =>
           IF i < Len(result.elements)
           THEN result.elements[i + 1].from = result.elements[i].to
           ELSE /\ result.kind = "SyntaxError"
                /\ result.end = result.elements[i].to
                /\ ~element(text, result.end).ok

\* a parsed text in which an element with a child stopped at the
\* backslash of the closing tag of its inline element
C9_Witness ==
  /\ result.kind = "Document"
  /\ \E ie \in AllInlines(result) :
       /\ StoppedAtBackslash(ie.element)
       /\ ie.element.children # <<>>

(* ------------------------------- C10 ---------------------------------- *)

\* C10: parse ends with a Document or a SyntaxError; at every offset an
\* element consumes at least a backslash and a tag id, an iteration of
\* each repetition consumes at least one character, and an element
\* nested in another starts after the tag of that element
C10_Progress ==
  /\ start(text).kind \in {"Document", "SyntaxError"}
  /\ Parsed =>
       /\ result = start(text)
       /\ \A p \in 0..Len(text) :
            LET e  == element(text, p)
                ie == inline_element(text, p)
                kv == pair(text, p)
            IN  /\ e.ok => e.pos >= next_token(text, p) + 2
                /\ ie.ok => ie.pos > p
                /\ kv.ok => kv.pos > p
       /\ \A e \in AllElements(result) :
            \A i \in DOMAIN e.children :
              e.children[i].inline.element.from >= e.from + 2

\* a parse that went twice through the repetitions of inline elements
\* and of pairs
C10_Witness ==
  /\ result.kind = "Document"
  /\ \E e \in AllElements(result) : Len(e.children) >= 2
  /\ \E ie \in AllInlines(result) : Len(ie.attributes) >= 2

====
